---- MODULE Spec2Model ----
(***************************************************************************)
(* SurrealDBPool (src/src/database/pool.ts): a fixed-size pool of backend  *)
(* connections with lazy initialisation, polling acquire with a timeout,   *)
(* release, scoped withConnection, statistics and bulk teardown.           *)
(*                                                                         *)
(* JavaScript runs one callback at a time: every action below is the code  *)
(* that runs between two suspension points (await) of one call.  Time is   *)
(* the value of Date.now(); code takes no time, and a timer fires at the   *)
(* instant it is due (time does not pass a due timer).                     *)
(*                                                                         *)
(* callers[p] is one asynchronous call of the pool (initialize, acquire,   *)
(* withConnection or closeAll) with its local variables, and afterwards    *)
(* its outcome and the connections its caller still holds.                 *)
(***************************************************************************)
EXTENDS Integers, Sequences, FiniteSets, TLC

\* ---------------------------------------------------------------- bounds
MaxPoolSize == 2     \* largest configured capacity N tried
MaxClients == 4      \* cap on `new Surreal()` over one run
MaxCalls == 2        \* asynchronous pool calls over one run, all possibly concurrent
MaxTime == 20        \* Date.now() stops advancing here

\* ------------------------------------------------------ program constants
PollInterval == 10   \* setTimeout(resolve, 10)

\* acquireTimeout values tried (ms); the constructor takes any number
Timeouts == {15}
\* how far one Tick may advance the clock (ms)
TickSteps == {5}

\* a Surreal object that was never created by the pool
Foreign == 0

VARIABLES
    pool,         \* this.pool: sequence of PoolConnection
    initialized,  \* this.initialized
    maxSize,      \* this.maxSize
    timeout,      \* this.timeout
    now,          \* Date.now()
    sessions,     \* sessions[c]: state of the c-th Surreal object created
    callers,      \* callers[p]: the call of call site p and its locals
    limits        \* the caps of this run: [calls, clients, time] and the
                  \* duration of fn, [work] (0: fn may settle at any time)

vars == <<pool, initialized, maxSize, timeout, now, sessions, callers, limits>>

Callers == 1..limits.calls

\* ------------------------------------------------------------ data model
\* the entry initialize pushes for client c at time t
PoolConnection(c, t) == [client |-> c, inUse |-> FALSE, lastUsed |-> t]

NoCall == [pc |-> "idle", op |-> "none", client |-> 0, i |-> 0,
           start |-> 0, wake |-> 0, lazy |-> FALSE,
           owned |-> {}, res |-> "none", released |-> 0, errTimeout |-> 0]

Min(S) == CHOOSE x \in S : \A y \in S : x <= y

\* ------------------------------------------------------- pure operations
\* mutant of find: findLast, the index of the last free entry
findLastFree(pl) ==
    IF \E k \in 1..Len(pl) : ~pl[k].inUse
    THEN CHOOSE k \in 1..Len(pl) :
            ~pl[k].inUse /\ \A j \in 1..Len(pl) : ~pl[j].inUse => j <= k
    ELSE 0

\* this.pool.find((conn) => !conn.inUse): index of the first free entry, 0 if none
find(pl) ==
    IF \E k \in 1..Len(pl) : ~pl[k].inUse
    THEN Min({k \in 1..Len(pl) : ~pl[k].inUse})
    ELSE 0

\* this.pool.find((c) => c.client === client): index of the entry of client c, 0 if none
findClient(pl, c) ==
    IF \E k \in 1..Len(pl) : pl[k].client = c
    THEN Min({k \in 1..Len(pl) : pl[k].client = c})
    ELSE 0

\* mutant of mark: the entry is stamped but not flagged as in use
markNoFlag(pl, k, t) == [pl EXCEPT ![k].lastUsed = t]

\* mutant of mark: every free entry is flagged, not only the one returned
markAllFree(pl, k, t) ==
    [j \in 1..Len(pl) |->
        IF j = k THEN [pl[j] EXCEPT !.inUse = TRUE, !.lastUsed = t]
        ELSE [pl[j] EXCEPT !.inUse = TRUE]]

\* available.inUse = true; available.lastUsed = Date.now()
mark(pl, k, t) == [pl EXCEPT ![k].inUse = TRUE, ![k].lastUsed = t]

\* mutant of release: the entry is removed with splice(indexOf(c), 1), which
\* removes the last entry when c matches none
releaseSplice(pl, c, t) ==
    LET k == findClient(pl, c)
    IN  IF k # 0 THEN [pl EXCEPT ![k].inUse = FALSE, ![k].lastUsed = t]
        ELSE SubSeq(pl, 1, Len(pl) - 1)

\* mutant of release: the entry is stamped but stays flagged as in use
releaseKeepFlag(pl, c, t) ==
    LET k == findClient(pl, c)
    IN  IF k # 0 THEN [pl EXCEPT ![k].lastUsed = t] ELSE pl

\* mutant of release: the flag is cleared, lastUsed is not updated
releaseNoStamp(pl, c, t) ==
    LET k == findClient(pl, c)
    IN  IF k # 0 THEN [pl EXCEPT ![k].inUse = FALSE] ELSE pl

\* release(client): the pool after the call
release(pl, c, t) ==
    LET k == findClient(pl, c)
    IN  IF k # 0 THEN [pl EXCEPT ![k].inUse = FALSE, ![k].lastUsed = t] ELSE pl

\* mutant of getStats: total is the configured capacity
getStatsCapacity(pl) ==
    LET inUse == Len(SelectSeq(pl, LAMBDA e : e.inUse))
    IN  [total |-> maxSize, inUse |-> inUse, available |-> maxSize - inUse]

\* getStats()
getStats(pl) ==
    LET inUse == Len(SelectSeq(pl, LAMBDA e : e.inUse))
    IN  [total |-> Len(pl), inUse |-> inUse, available |-> Len(pl) - inUse]

\* mutant of withinTimeout: the loop gives up when the next poll would be late
withinTimeoutEarly(st, t) == t - st + PollInterval < timeout

\* mutant of withinTimeout: the loop has no deadline, while (true)
withinTimeoutForever(st, t) == t >= st

\* the loop condition of acquire: Date.now() - start < this.timeout
withinTimeout(st, t) == t - st < timeout

\* ------------------------------------------------------------ call frames
\* the call has settled with outcome r; the caller keeps what it holds
Done(cs, r) ==
    [cs EXCEPT !.pc = "idle", !.op = "none", !.res = r, !.client = 0, !.i = 0,
               !.start = 0, !.wake = 0, !.lazy = FALSE]

\* acquire returns client c: to the caller, or to withConnection, which calls fn(c)
Acquired(cs, c) ==
    IF cs.op = "withConnection"
    THEN [cs EXCEPT !.pc = "fn", !.client = c, !.owned = @ \cup {c}, !.start = 0,
                    !.wake = IF limits.work > 0 THEN now + limits.work ELSE 0]
    ELSE [Done(cs, "ok") EXCEPT !.owned = @ \cup {c}]

\* the frame of a new call of operation o
Frame(p, o) == [callers[p] EXCEPT !.op = o]

\* call p has been made
HasCalled(p) == callers[p].pc # "idle" \/ callers[p].res # "none"

\* calls are interchangeable, so they are made in the order of their numbers
CanCall(p) ==
    /\ ~HasCalled(p)
    /\ \A q \in Callers : q < p => HasCalled(q)

\* the pool after new SurrealDBPool(maxSize, timeout)
New ==
    /\ pool = <<>>
    /\ sessions = <<>>
    /\ initialized = FALSE

\* the pool after one initialize() that ran alone and succeeded
Filled ==
    /\ pool = [k \in 1..maxSize |-> PoolConnection(k, 0)]
    /\ sessions = [k \in 1..maxSize |-> "ready"]
    /\ initialized = TRUE

Init ==
    /\ maxSize \in 1..MaxPoolSize
    /\ timeout \in Timeouts
    /\ now = 0
    /\ New \/ Filled
    /\ limits = [calls |-> MaxCalls, clients |-> MaxClients, time |-> MaxTime, work |-> 0]
    /\ callers = [p \in 1..MaxCalls |-> NoCall]

\* ------------------------------------------------------------ initialize
\* createConnection up to its first await: new Surreal(); client.connect(url)
CreateConnection(p, cs) ==
    /\ Len(sessions) < limits.clients
    /\ sessions' = Append(sessions, "new")
    /\ callers' = [callers EXCEPT ![p] =
                      [cs EXCEPT !.pc = "connect", !.client = Len(sessions) + 1]]

\* mutant of InitFailed: the flag is set in a finally block, on failure too
InitFailedFlagged(p) ==
    /\ callers' = [callers EXCEPT ![p] = Done(callers[p], "InitError")]
    /\ initialized' = TRUE
    /\ UNCHANGED <<pool, sessions>>

\* a step of createConnection failed: initialize logs and throws DatabaseError,
\* which a lazy acquire (and withConnection) passes on
InitFailed(p) ==
    /\ callers' = [callers EXCEPT ![p] = Done(callers[p], "InitError")]
    /\ UNCHANGED <<pool, initialized, sessions>>

\* initialize() called directly
Initialize(p) ==
    /\ CanCall(p)
    /\ IF initialized
       THEN /\ callers' = [callers EXCEPT ![p] = Done(Frame(p, "initialize"), "ok")]
            /\ UNCHANGED sessions
       ELSE CreateConnection(p, Frame(p, "initialize"))
    /\ UNCHANGED <<pool, initialized, maxSize, timeout, now, limits>>

\* mutant of ConnectDone: createConnection goes from connect to use, no signin
ConnectDoneNoSignin(p) ==
    /\ callers[p].pc = "connect"
    /\ \/ /\ sessions' = [sessions EXCEPT ![callers[p].client] = "connected"]
          /\ callers' = [callers EXCEPT ![p].pc = "use"]
          /\ UNCHANGED <<pool, initialized>>
       \/ InitFailed(p)
    /\ UNCHANGED <<maxSize, timeout, now, limits>>

\* await client.connect(...) settles
ConnectDone(p) ==
    /\ callers[p].pc = "connect"
    /\ \/ /\ sessions' = [sessions EXCEPT ![callers[p].client] = "connected"]
          /\ callers' = [callers EXCEPT ![p].pc = "signin"]
          /\ UNCHANGED <<pool, initialized>>
       \/ InitFailed(p)
    /\ UNCHANGED <<maxSize, timeout, now, limits>>

\* await client.signin(...) settles
SigninDone(p) ==
    /\ callers[p].pc = "signin"
    /\ \/ /\ sessions' = [sessions EXCEPT ![callers[p].client] = "signedin"]
          /\ callers' = [callers EXCEPT ![p].pc = "use"]
          /\ UNCHANGED <<pool, initialized>>
       \/ InitFailed(p)
    /\ UNCHANGED <<maxSize, timeout, now, limits>>

\* await client.use(...) settles: createConnection returns, initialize pushes the
\* entry and either starts the next connection or sets initialized and returns
UseDone(p) ==
    LET cs == callers[p]
        ready == [sessions EXCEPT ![cs.client] = "ready"]
    IN
    /\ cs.pc = "use"
    /\ \/ /\ pool' = Append(pool, PoolConnection(cs.client, now))
          /\ IF cs.i + 1 < maxSize
             THEN /\ Len(sessions) < limits.clients
                  /\ sessions' = Append(ready, "new")
                  /\ callers' = [callers EXCEPT ![p] =
                        [cs EXCEPT !.pc = "connect", !.client = Len(sessions) + 1,
                                   !.i = cs.i + 1]]
                  /\ UNCHANGED initialized
             ELSE /\ sessions' = ready
                  /\ initialized' = TRUE
                  /\ callers' = [callers EXCEPT ![p] =
                        IF cs.op = "initialize"
                        THEN Done(cs, "ok")
                        ELSE [cs EXCEPT !.pc = "scan", !.client = 0, !.i = 0]]
       \/ InitFailed(p)
    /\ UNCHANGED <<maxSize, timeout, now, limits>>

\* --------------------------------------------------------------- acquire
\* mutant of AcquireLoop: an acquire that times out reclaims the first entry
AcquireLoopReclaim(p, cs) ==
    IF withinTimeout(cs.start, now)
    THEN LET k == find(pool) IN
         IF k # 0
         THEN /\ pool' = mark(pool, k, now)
              /\ callers' = [callers EXCEPT ![p] = Acquired(cs, pool[k].client)]
         ELSE /\ pool' = pool
              /\ callers' = [callers EXCEPT ![p] =
                                [cs EXCEPT !.pc = "sleep", !.wake = now + PollInterval]]
    ELSE /\ pool' = IF Len(pool) >= 1 THEN [pool EXCEPT ![1].inUse = FALSE] ELSE pool
         /\ callers' = [callers EXCEPT ![p] =
                           [Done(cs, "PoolExhausted") EXCEPT !.errTimeout = timeout]]

\* one pass of the while loop of acquire, for a call whose clock started at
\* cs.start; the error thrown after the loop has this.timeout in its message
AcquireLoop(p, cs) ==
    IF withinTimeout(cs.start, now)
    THEN LET k == find(pool) IN
         IF k # 0
         THEN /\ pool' = mark(pool, k, now)
              /\ callers' = [callers EXCEPT ![p] = Acquired(cs, pool[k].client)]
         ELSE /\ pool' = pool
              /\ callers' = [callers EXCEPT ![p] =
                                [cs EXCEPT !.pc = "sleep", !.wake = now + PollInterval]]
    ELSE /\ pool' = pool
         /\ callers' = [callers EXCEPT ![p] =
                           [Done(cs, "PoolExhausted") EXCEPT !.errTimeout = timeout]]

\* mutant of AcquireCall: no lazy initialize, the call scans at once
AcquireCallNoInit(p, o) ==
    /\ CanCall(p)
    /\ AcquireLoop(p, [Frame(p, o) EXCEPT !.start = now])
    /\ UNCHANGED <<initialized, maxSize, timeout, now, sessions, limits>>

\* mutant of AcquireCall: do { await timer } while (no free entry): the call
\* waits one poll interval before its first scan
AcquireCallPollFirst(p, o) ==
    /\ CanCall(p)
    /\ IF ~initialized
       THEN /\ CreateConnection(p, [Frame(p, o) EXCEPT !.lazy = TRUE])
            /\ UNCHANGED pool
       ELSE /\ callers' = [callers EXCEPT ![p] =
                  [Frame(p, o) EXCEPT !.start = now, !.pc = "sleep",
                                      !.wake = now + PollInterval]]
            /\ UNCHANGED <<pool, sessions>>
    /\ UNCHANGED <<initialized, maxSize, timeout, now, limits>>

\* acquire() or withConnection(fn) is called: on a pool that is not initialized
\* the call first awaits initialize(); otherwise it scans at once
AcquireCall(p, o) ==
    /\ CanCall(p)
    /\ IF ~initialized
       THEN /\ CreateConnection(p, [Frame(p, o) EXCEPT !.lazy = TRUE])
            /\ UNCHANGED pool
       ELSE /\ AcquireLoop(p, [Frame(p, o) EXCEPT !.start = now])
            /\ UNCHANGED sessions
    /\ UNCHANGED <<initialized, maxSize, timeout, now, limits>>

Acquire(p) == AcquireCall(p, "acquire")

WithConnection(p) == AcquireCall(p, "withConnection")

\* the lazy initialize() has returned: const start = Date.now(), first scan
AcquireResume(p) ==
    /\ callers[p].pc = "scan"
    /\ AcquireLoop(p, [callers[p] EXCEPT !.start = now])
    /\ UNCHANGED <<initialized, maxSize, timeout, now, sessions, limits>>

\* mutant of TimerFire: a waiting acquire that finds the pool not initialized
\* initializes it again
TimerFireReinit(p) ==
    /\ callers[p].pc = "sleep"
    /\ callers[p].wake <= now
    /\ IF ~initialized /\ Len(sessions) < limits.clients
       THEN /\ CreateConnection(p, [callers[p] EXCEPT !.lazy = TRUE])
            /\ UNCHANGED pool
       ELSE /\ AcquireLoop(p, callers[p])
            /\ UNCHANGED sessions
    /\ UNCHANGED <<initialized, maxSize, timeout, now, limits>>

\* the 10 ms timer of a waiting acquire fires: next pass of the loop
TimerFire(p) ==
    /\ callers[p].pc = "sleep"
    /\ callers[p].wake <= now
    /\ AcquireLoop(p, callers[p])
    /\ UNCHANGED <<initialized, maxSize, timeout, now, sessions, limits>>

\* --------------------------------------------------------------- release
\* what the caller of release(c) observes: the call returns nothing and never
\* throws; "released" if an entry matched, "ignored" if none did
Released(pl, c) == IF findClient(pl, c) # 0 THEN "released" ELSE "ignored"

\* mutant of Release: the pool keeps a queue, release hands the connection to
\* the earliest waiting acquire
ReleaseHandOff(p, c) ==
    LET waiters == {w \in Callers : callers[w].pc = "sleep"}
        k == findClient(pool, c)
    IN
    /\ callers[p].pc = "idle"
    /\ c \in callers[p].owned
    /\ IF waiters # {} /\ k # 0
       THEN LET w == Min(waiters) IN
            /\ pool' = mark(pool, k, now)
            /\ callers' = [callers EXCEPT
                  ![p] = [@ EXCEPT !.owned = @ \ {c}, !.released = c,
                                   !.res = Released(pool, c)],
                  ![w] = Acquired(callers[w], c)]
       ELSE /\ pool' = release(pool, c, now)
            /\ callers' = [callers EXCEPT ![p].owned = @ \ {c}, ![p].released = c,
                                          ![p].res = Released(pool, c)]
    /\ UNCHANGED <<initialized, maxSize, timeout, now, sessions, limits>>

\* release(c) by the caller that holds c
Release(p, c) ==
    /\ callers[p].pc = "idle"
    /\ c \in callers[p].owned
    /\ pool' = release(pool, c, now)
    /\ callers' = [callers EXCEPT ![p].owned = @ \ {c}, ![p].released = c,
                                  ![p].res = Released(pool, c)]
    /\ UNCHANGED <<initialized, maxSize, timeout, now, sessions, limits>>

\* how the promise of fn(client) can settle: it resolves, or it rejects
FnOutcomes == {"ok", "FnError"}

\* mutant of FnDone: release follows fn without try/finally, so a throwing fn
\* skips it
FnDoneNoFinally(p) ==
    /\ callers[p].pc = "fn"
    /\ limits.work > 0 => callers[p].wake <= now
    /\ \E r \in FnOutcomes :
          /\ pool' = IF r = "ok" THEN release(pool, callers[p].client, now) ELSE pool
          /\ callers' = [callers EXCEPT ![p] =
                [Done(callers[p], r) EXCEPT
                    !.owned = IF r = "ok" THEN @ \ {callers[p].client} ELSE @]]
    /\ UNCHANGED <<initialized, maxSize, timeout, now, sessions, limits>>

\* mutant of FnSettled: an error of fn is caught and logged, the call resolves
FnSettledSwallow(p, r) ==
    /\ pool' = release(pool, callers[p].client, now)
    /\ callers' = [callers EXCEPT ![p] =
                      [Done(callers[p], "ok") EXCEPT !.owned = @ \ {callers[p].client}]]

\* fn has settled with outcome r: finally { this.release(client) }, then the
\* outcome of fn becomes the outcome of withConnection
FnSettled(p, r) ==
    /\ pool' = release(pool, callers[p].client, now)
    /\ callers' = [callers EXCEPT ![p] =
                      [Done(callers[p], r) EXCEPT !.owned = @ \ {callers[p].client}]]

\* withConnection: fn settles (returns or throws); finally { this.release(client) }
FnDone(p) ==
    /\ callers[p].pc = "fn"
    /\ limits.work > 0 => callers[p].wake <= now
    /\ \E r \in FnOutcomes : FnSettled(p, r)
    /\ UNCHANGED <<initialized, maxSize, timeout, now, sessions, limits>>

\* release(c) once more by a caller that has released c already
ReleaseStale(p) ==
    LET c == callers[p].released IN
    /\ callers[p].pc = "idle"
    /\ c # 0
    /\ c \notin callers[p].owned
    /\ pool' = release(pool, c, now)
    /\ callers' = [callers EXCEPT ![p].res = Released(pool, c)]
    /\ UNCHANGED <<initialized, maxSize, timeout, now, sessions, limits>>

\* release(c) of a Surreal object the pool never created
ReleaseForeign(p) ==
    /\ callers[p].pc = "idle"
    /\ HasCalled(p)
    /\ pool' = release(pool, Foreign, now)
    /\ callers' = [callers EXCEPT ![p].res = Released(pool, Foreign)]
    /\ UNCHANGED <<initialized, maxSize, timeout, now, sessions, limits>>

\* -------------------------------------------------------------- closeAll
\* mutant of Emptied: closeAll resets the flag but keeps the entries
EmptiedKeep(p, cs) ==
    /\ pool' = pool
    /\ initialized' = FALSE
    /\ callers' = [callers EXCEPT ![p] = Done(cs, "closed")]

\* this.pool.length = 0; this.initialized = false; return: the caller of
\* closeAll sees it resolve ("closed")
Emptied(p, cs) ==
    /\ pool' = <<>>
    /\ initialized' = FALSE
    /\ callers' = [callers EXCEPT ![p] = Done(cs, "closed")]

\* mutant of CloseAll: closeAll on a pool without entries rejects
CloseAllRejectEmpty(p) ==
    /\ CanCall(p)
    /\ IF Len(pool) >= 1
       THEN callers' = [callers EXCEPT ![p] =
                  [Frame(p, "closeAll") EXCEPT !.pc = "close", !.i = 1,
                                                !.client = pool[1].client]]
       ELSE callers' = [callers EXCEPT ![p] = Done(Frame(p, "closeAll"), "ShutdownError")]
    /\ UNCHANGED <<pool, initialized, maxSize, timeout, now, sessions, limits>>

\* closeAll() is called: the iterator takes the first entry and awaits its close()
CloseAll(p) ==
    /\ CanCall(p)
    /\ IF Len(pool) >= 1
       THEN /\ callers' = [callers EXCEPT ![p] =
                  [Frame(p, "closeAll") EXCEPT !.pc = "close", !.i = 1,
                                                !.client = pool[1].client]]
            /\ UNCHANGED <<pool, initialized>>
       ELSE Emptied(p, Frame(p, "closeAll"))
    /\ UNCHANGED <<maxSize, timeout, now, sessions, limits>>

\* mutant of CloseDone: the loop ends after the first close
CloseDoneFirstOnly(p) ==
    LET cs == callers[p] IN
    /\ cs.pc = "close"
    /\ \/ /\ sessions' = [sessions EXCEPT ![cs.client] = "closed"]
          /\ Emptied(p, cs)
       \/ /\ callers' = [callers EXCEPT ![p] = Done(cs, "ShutdownError")]
          /\ UNCHANGED <<pool, initialized, sessions>>
    /\ UNCHANGED <<maxSize, timeout, now, limits>>

\* mutant of CloseDone: the pool is emptied in a finally block, on failure too
CloseDoneFinally(p) ==
    LET cs == callers[p] IN
    /\ cs.pc = "close"
    /\ \/ /\ sessions' = [sessions EXCEPT ![cs.client] = "closed"]
          /\ IF cs.i + 1 <= Len(pool)
             THEN /\ callers' = [callers EXCEPT ![p] =
                        [cs EXCEPT !.i = cs.i + 1, !.client = pool[cs.i + 1].client]]
                  /\ UNCHANGED <<pool, initialized>>
             ELSE Emptied(p, cs)
       \/ /\ callers' = [callers EXCEPT ![p] = Done(cs, "ShutdownError")]
          /\ pool' = <<>>
          /\ initialized' = FALSE
          /\ UNCHANGED sessions
    /\ UNCHANGED <<maxSize, timeout, now, limits>>

\* await conn.client.close() settles: the iterator takes the next entry of the
\* array as it is now, or the loop ends; a failed close throws DatabaseError
CloseDone(p) ==
    LET cs == callers[p] IN
    /\ cs.pc = "close"
    /\ \/ /\ sessions' = [sessions EXCEPT ![cs.client] = "closed"]
          /\ IF cs.i + 1 <= Len(pool)
             THEN /\ callers' = [callers EXCEPT ![p] =
                        [cs EXCEPT !.i = cs.i + 1, !.client = pool[cs.i + 1].client]]
                  /\ UNCHANGED <<pool, initialized>>
             ELSE Emptied(p, cs)
       \/ /\ callers' = [callers EXCEPT ![p] = Done(cs, "ShutdownError")]
          /\ UNCHANGED <<pool, initialized, sessions>>
    /\ UNCHANGED <<maxSize, timeout, now, limits>>

\* ------------------------------------------------------------------ time
\* the calls that wait for a timer: a polling acquire, an fn of fixed duration
Waiting ==
    {p \in Callers : \/ callers[p].pc = "sleep"
                     \/ callers[p].pc = "fn" /\ limits.work > 0}

Deadlines == {callers[p].wake : p \in Waiting}

\* Date.now() moves to the next timer that is due to fire
Advance ==
    /\ Waiting # {}
    /\ \A t \in Deadlines : t > now
    /\ now' = Min(Deadlines)
    /\ now' <= limits.time
    /\ UNCHANGED <<pool, initialized, maxSize, timeout, sessions, callers, limits>>

\* Date.now() moves by a few ms, but not past a timer that is due
Tick ==
    /\ \A t \in Deadlines : t > now
    /\ \E d \in TickSteps : now' = Min({now + d} \cup Deadlines)
    /\ now' <= limits.time
    /\ UNCHANGED <<pool, initialized, maxSize, timeout, sessions, callers, limits>>

\* -------------------------------------------------------- specifications
\* the life of a pool from its construction, callers releasing what they hold
Next ==
    \/ \E p \in Callers : Initialize(p)
    \/ \E p \in Callers : ConnectDone(p)
    \/ \E p \in Callers : SigninDone(p)
    \/ \E p \in Callers : UseDone(p)
    \/ \E p \in Callers : Acquire(p)
    \/ \E p \in Callers : WithConnection(p)
    \/ \E p \in Callers : AcquireResume(p)
    \/ \E p \in Callers : TimerFire(p)
    \/ \E p \in Callers : \E c \in callers[p].owned : Release(p, c)
    \/ \E p \in Callers : FnDone(p)
    \/ \E p \in Callers : CloseAll(p)
    \/ \E p \in Callers : CloseDone(p)
    \/ Advance

Spec == Init /\ [][Next]_vars

\* the same, with callers that also release handles they do not hold
NextMisuse ==
    \/ Next
    \/ \E p \in Callers : ReleaseStale(p)
    \/ \E p \in Callers : ReleaseForeign(p)

SpecMisuse == Init /\ [][NextMisuse]_vars

\* a pool that initialize() has filled, with callers that acquire, run fn and
\* release; the clock moves in small steps
SteadyTimeouts == {10, 15}

InitSteady ==
    /\ maxSize \in 1..MaxPoolSize
    /\ timeout \in SteadyTimeouts
    /\ now = 0
    /\ Filled
    /\ limits = [calls |-> MaxCalls + 1, clients |-> MaxClients, time |-> MaxTime, work |-> 0]
    /\ callers = [p \in 1..(MaxCalls + 1) |-> NoCall]

NextSteady ==
    \/ \E p \in Callers : Acquire(p)
    \/ \E p \in Callers : WithConnection(p)
    \/ \E p \in Callers : TimerFire(p)
    \/ \E p \in Callers : \E c \in callers[p].owned : Release(p, c)
    \/ \E p \in Callers : FnDone(p)
    \/ Tick

SpecSteady == InitSteady /\ [][NextSteady]_vars

\* the same, with callers that also release a connection a second time
NextDoubleRelease ==
    \/ NextSteady
    \/ \E p \in Callers : ReleaseStale(p)

SpecDoubleRelease == InitSteady /\ [][NextDoubleRelease]_vars

\* the contention scenario: a new pool with N = 2 and acquireTimeout = 200 ms,
\* three withConnection calls made at the same time, each fn taking 50 ms
InitScenario ==
    /\ maxSize = 2
    /\ timeout = 200
    /\ now = 0
    /\ New
    /\ limits = [calls |-> 3, clients |-> 6, time |-> 400, work |-> 50]
    /\ callers = [p \in 1..3 |-> NoCall]

\* time passes once the three calls are made
AdvanceScenario ==
    /\ \A p \in Callers : HasCalled(p)
    /\ Advance

NextScenario ==
    \/ \E p \in Callers : WithConnection(p)
    \/ \E p \in Callers : ConnectDone(p)
    \/ \E p \in Callers : SigninDone(p)
    \/ \E p \in Callers : UseDone(p)
    \/ \E p \in Callers : AcquireResume(p)
    \/ \E p \in Callers : TimerFire(p)
    \/ \E p \in Callers : FnDone(p)
    \/ AdvanceScenario

SpecScenario == InitScenario /\ [][NextScenario]_vars

\* a pool that initialize() has filled, where time advances and every poll timer
\* fires, and where the holders of connections may never release them; calls
\* are made while their last possible poll still lies before the end of time
InitWait ==
    /\ maxSize \in 1..MaxPoolSize
    /\ timeout \in SteadyTimeouts
    /\ now = 0
    /\ Filled
    /\ limits = [calls |-> MaxCalls + 1, clients |-> MaxClients,
                 time |-> MaxTime + MaxTime, work |-> 0]
    /\ callers = [p \in 1..(MaxCalls + 1) |-> NoCall]

InTime == now + timeout + PollInterval <= limits.time

NextWait ==
    \/ \E p \in Callers : InTime /\ Acquire(p)
    \/ \E p \in Callers : InTime /\ WithConnection(p)
    \/ \E p \in Callers : TimerFire(p)
    \/ \E p \in Callers : \E c \in callers[p].owned : Release(p, c)
    \/ \E p \in Callers : FnDone(p)
    \/ Advance

SpecWait ==
    /\ InitWait
    /\ [][NextWait]_vars
    /\ WF_vars(Advance)
    /\ \A p \in 1..(MaxCalls + 1) : WF_vars(TimerFire(p))

\* a pool that initialize() has filled and that is used and torn down by
\* overlapping calls, initialize() never being called explicitly
InitTeardown ==
    /\ maxSize \in 1..MaxPoolSize
    /\ timeout \in Timeouts
    /\ now = 0
    /\ Filled
    /\ limits = [calls |-> MaxCalls + 1, clients |-> MaxClients,
                 time |-> MaxTime, work |-> 0]
    /\ callers = [p \in 1..(MaxCalls + 1) |-> NoCall]

NextTeardown ==
    \/ \E p \in Callers : ConnectDone(p)
    \/ \E p \in Callers : SigninDone(p)
    \/ \E p \in Callers : UseDone(p)
    \/ \E p \in Callers : Acquire(p)
    \/ \E p \in Callers : WithConnection(p)
    \/ \E p \in Callers : AcquireResume(p)
    \/ \E p \in Callers : TimerFire(p)
    \/ \E p \in Callers : \E c \in callers[p].owned : Release(p, c)
    \/ \E p \in Callers : FnDone(p)
    \/ \E p \in Callers : CloseAll(p)
    \/ \E p \in Callers : CloseDone(p)
    \/ Advance

SpecTeardown == InitTeardown /\ [][NextTeardown]_vars

\* calls made one after another: a call, and a release, is made only when no
\* call is in flight, so that nothing interleaves with a running call
Quiet == \A q \in Callers : callers[q].pc = "idle"

InitSequential ==
    /\ maxSize \in 1..MaxPoolSize
    /\ timeout \in Timeouts
    /\ now = 0
    /\ New \/ Filled
    /\ limits = [calls |-> MaxCalls + 2, clients |-> MaxClients + 2,
                 time |-> MaxTime, work |-> 0]
    /\ callers = [p \in 1..(MaxCalls + 2) |-> NoCall]

NextSequential ==
    \/ \E p \in Callers : Quiet /\ Initialize(p)
    \/ \E p \in Callers : ConnectDone(p)
    \/ \E p \in Callers : SigninDone(p)
    \/ \E p \in Callers : UseDone(p)
    \/ \E p \in Callers : Quiet /\ Acquire(p)
    \/ \E p \in Callers : Quiet /\ WithConnection(p)
    \/ \E p \in Callers : AcquireResume(p)
    \/ \E p \in Callers : TimerFire(p)
    \/ \E p \in Callers : \E c \in callers[p].owned : Quiet /\ Release(p, c)
    \/ \E p \in Callers : FnDone(p)
    \/ \E p \in Callers : Quiet /\ CloseAll(p)
    \/ \E p \in Callers : CloseDone(p)
    \/ Advance

SpecSequential == InitSequential /\ [][NextSequential]_vars

\* ---------------------------------------------------------------- claims
InUse(pl) == {k \in 1..Len(pl) : pl[k].inUse}

\* C1: the number of entries with inUse = true never exceeds the configured
\* capacity N, whatever the interleaving of initialize, acquire, withConnection
\* and release.
CapacityInvariant == Cardinality(InUse(pool)) <= maxSize

\* C2: an acquire never returns a connection that some caller holds: between the
\* acquire that returns c and the release of c, no acquire returns c.
Exclusivity ==
    [][\A p \in Callers : \A c \in callers'[p].owned \ callers[p].owned :
          \A q \in Callers : c \notin callers[q].owned]_vars

\* a connection that one caller released is now held by another caller
ExclusivityWitness ==
    \E p, q \in Callers :
        /\ p # q
        /\ callers[p].released # 0
        /\ callers[p].released \in callers[q].owned

\* C3: when initialize runs have completed, none failed and nothing was closed,
\* exactly N connections were established and entries has exactly N elements.
IdempotentInitialize ==
    ( /\ initialized
      /\ \A p \in Callers : callers[p].pc \notin {"connect", "signin", "use"}
      /\ \A c \in 1..Len(sessions) : sessions[c] = "ready" )
    => (Len(sessions) = maxSize /\ Len(pool) = maxSize)

\* C4: when the fn of withConnection settles, by returning or by throwing, the
\* connection is released: its entry is free and stamped, the caller no longer
\* holds it, and the next scan of acquire finds a free entry at once, which in a
\* pool of one entry is that connection.
ScopedRelease ==
    [][\A p \in Callers :
          (callers[p].pc = "fn" /\ callers'[p].pc # "fn") =>
             LET c == callers[p].client
                 k == findClient(pool, c)
             IN  /\ callers'[p].res \in {"ok", "FnError"}
                 /\ c \notin callers'[p].owned
                 /\ k # 0 =>
                      /\ pool'[k].client = c
                      /\ ~pool'[k].inUse
                      /\ pool'[k].lastUsed = now
                      /\ find(pool') # 0
                      /\ Len(pool) = 1 => pool'[find(pool')].client = c]_vars

\* N = 1: the fn of a withConnection threw, and a later acquire holds the one
\* connection the pool ever created
ScopedReleaseWitness ==
    /\ maxSize = 1
    /\ Len(sessions) = 1
    /\ \E p, q \in Callers :
          /\ callers[p].res = "FnError"
          /\ callers[q].owned = {1}

\* C5: an acquire on an initialized pool fails with the pool-exhausted error only
\* when at least T ms and at most T + 10 ms have passed since the call, and a
\* waiting acquire whose T ms have passed fails when its timer fires.
TimeoutCorrect ==
    [][\A p \in Callers :
          LET e == IF callers[p].pc = "sleep" THEN now - callers[p].start ELSE 0 IN
          /\ (callers'[p].res = "PoolExhausted" /\ callers[p].res # "PoolExhausted")
                => (timeout <= e /\ e <= timeout + PollInterval)
          /\ (callers[p].pc = "sleep" /\ callers'[p] # callers[p] /\ e >= timeout)
                => callers'[p].res = "PoolExhausted"]_vars

\* N = 1, the one connection is held, and an acquire has failed with the
\* pool-exhausted error
TimeoutWitness ==
    /\ maxSize = 1
    /\ InUse(pool) = {1}
    /\ \E p \in Callers : callers[p].res = "PoolExhausted"

\* the same with N = 2 and both connections held
TimeoutWitnessTwo ==
    /\ maxSize = 2
    /\ InUse(pool) = {1, 2}
    /\ \E p \in Callers : callers[p].res = "PoolExhausted"

\* C6: whenever initialized is true, entries has exactly N elements.
FixedSize == initialized => Len(pool) = maxSize

\* the handles release can be called with
Handles == {Foreign} \cup (1..Len(sessions))

\* release(c) is called by p in this step
ReleaseOf(p, c) ==
    \/ Release(p, c)
    \/ ReleaseStale(p) /\ callers[p].released = c
    \/ ReleaseForeign(p) /\ c = Foreign
    \/ FnDone(p) /\ callers[p].client = c

\* C7: release(c) of a connection that matches no entry returns normally and
\* changes nothing: entries with their inUse and lastUsed, initialized and the
\* result of getStats() are as before.
ReleaseUnknownNoOp ==
    [][\A p \in Callers : \A c \in Handles :
          (findClient(pool, c) = 0 /\ ReleaseOf(p, c)) =>
             /\ pool' = pool
             /\ initialized' = initialized
             /\ getStats(pool') = getStats(pool)
             /\ callers[p].pc = "idle" => callers'[p].res = "ignored"]_vars

\* a release matched no entry while the pool had connections checked out
ReleaseUnknownWitness ==
    /\ InUse(pool) # {}
    /\ \E p \in Callers : callers[p].res = "ignored"

\* C8: no connection is held by two callers, also when a caller releases a
\* connection a second time after another caller has acquired it.
SoleHolder ==
    \A p, q \in Callers : p # q => callers[p].owned \cap callers[q].owned = {}

\* C9: getStats() returns total = number of entries, inUse = number of entries
\* with inUse = true, available = number of free entries = total - inUse, with
\* 0 <= inUse <= total.
StatsConsistent ==
    LET st == getStats(pool) IN
    /\ st.total = Len(pool)
    /\ st.inUse = Cardinality(InUse(pool))
    /\ st.available = Cardinality((1..Len(pool)) \ InUse(pool))
    /\ st.available + st.inUse = st.total
    /\ 0 <= st.inUse /\ st.inUse <= st.total

\* some entries are checked out, some are free, and there are more than N
StatsWitness ==
    /\ getStats(pool).inUse >= 1
    /\ getStats(pool).available >= 1
    /\ getStats(pool).total > maxSize

\* C10: in the contention scenario no call fails with the pool-exhausted error
\* and at most two of the three fn run at a time: the third caller is served
\* only after one of the first two has released.
ScenarioServedInTurn ==
    /\ \A p \in Callers : callers[p].res # "PoolExhausted"
    /\ Cardinality({p \in Callers : callers[p].pc = "fn"}) <= maxSize

\* C11: a successful closeAll() followed by a successful initialize() leaves the
\* pool as a first initialize() leaves a new pool: initialized is true and
\* entries has exactly N elements, all free, ready, and created by this run of
\* initialize, so that none was in the pool before closeAll.
ReinitRoundTrip ==
    [][\A p \in Callers :
          ( /\ p > 1
            /\ callers[p - 1].res = "closed"
            /\ callers[p].op = "initialize"
            /\ callers[p].pc # "idle"
            /\ callers'[p].res = "ok" )
          => LET first == callers[p].client - maxSize IN
             /\ initialized'
             /\ pool' = [k \in 1..maxSize |-> PoolConnection(first + k, now)]
             /\ \A k \in 1..maxSize : sessions'[first + k] = "ready"
             /\ \A c \in 1..first : findClient(pool', c) = 0]_vars

\* N = 2: a pool that had a connection checked out was closed and initialized
\* again; the connections the first pool had are closed
ReinitWitness ==
    /\ maxSize = 2
    /\ initialized
    /\ Len(pool) = 2
    /\ \E p \in Callers :
          /\ p > 2
          /\ callers[p].res = "ok"
          /\ callers[p - 1].res = "closed"
          /\ callers[p - 2].owned # {}
          /\ \A c \in callers[p - 2].owned : sessions[c] = "closed"

\* C12: closeAll invokes close on the connection of every entry, also when the
\* close of an entry fails: when closeAll settles, the entry whose close settled
\* last (the cs.i-th, the entries being closed in order) is the last entry, so
\* that no entry after a failing one is left without a close.
BestEffortTeardown ==
    [][\A p \in Callers :
          (callers[p].pc = "close" /\ callers'[p].pc = "idle")
          => callers[p].i >= Len(pool)]_vars

\* C13: a closeAll in which no close fails and with which nothing interleaves
\* visits the entries one by one in order and, when it resolves, has closed the
\* connection of every entry, idle or checked out, each once (the entries hold
\* distinct connections and the last one closed is the last entry); entries is
\* then empty and initialized is false.
SuccessfulTeardown ==
    [][\A p \in Callers :
          /\ (callers[p].pc = "close" /\ callers'[p].pc = "close")
                => /\ callers'[p].i = callers[p].i + 1
                   /\ callers'[p].client = pool[callers'[p].i].client
                   /\ sessions'[callers[p].client] = "closed"
          /\ (callers[p].res # "closed" /\ callers'[p].res = "closed")
                => /\ pool' = <<>>
                   /\ ~initialized'
                   /\ callers[p].i = Len(pool)
                   /\ \A j, k \in 1..Len(pool) :
                         pool[j].client = pool[k].client => j = k
                   /\ \A k \in 1..Len(pool) : sessions'[pool[k].client] = "closed"]_vars

\* N = 2: closeAll resolved on a pool of which one connection was checked out
\* and one was idle; both are closed
TeardownWitness ==
    /\ maxSize = 2
    /\ pool = <<>>
    /\ ~initialized
    /\ sessions = <<"closed", "closed">>
    /\ \E p, q \in Callers :
          /\ callers[p].res = "closed"
          /\ callers[q].owned = {1}

\* C14: closeAll() called after a closeAll() that resolved closes no connection,
\* raises no error and changes nothing: it resolves at once, entries is empty and
\* initialized is false before and after.
CloseAllIdempotent ==
    [][\A p \in Callers :
          (p > 1 /\ callers[p - 1].res = "closed" /\ CloseAll(p))
          => /\ sessions' = sessions
             /\ pool = <<>> /\ pool' = <<>>
             /\ ~initialized /\ ~initialized'
             /\ callers'[p].pc = "idle"
             /\ callers'[p].res = "closed"]_vars

\* closeAll resolved twice in a row on a pool whose connections it had closed
CloseAllTwiceWitness ==
    /\ Len(sessions) >= 1
    /\ \A c \in 1..Len(sessions) : sessions[c] = "closed"
    /\ \E p \in Callers :
          /\ p > 1
          /\ callers[p].res = "closed"
          /\ callers[p - 1].res = "closed"

SetupStates == {"connect", "signin", "use"}

\* C15: when a step of establishing a connection fails during initialize(), the
\* call fails with the initialization error and initialized is false afterwards;
\* initialized becomes true only in the step in which a run of initialize
\* completes its N-th connection setup, the N connections of that run being
\* ready and in entries.
InitFailureNotInitialized ==
    [][/\ \A p \in Callers :
             ( /\ callers[p].pc \in SetupStates
               /\ callers'[p].pc = "idle"
               /\ callers'[p].res # "ok" )
             => (callers'[p].res = "InitError" /\ ~initialized')
       /\ (~initialized /\ initialized')
             => \E p \in Callers :
                   LET first == callers[p].client - maxSize IN
                   /\ callers[p].pc = "use"
                   /\ callers[p].i + 1 = maxSize
                   /\ callers'[p].res # "InitError"
                   /\ \A k \in 1..maxSize :
                         /\ sessions'[first + k] = "ready"
                         /\ findClient(pool', first + k) # 0]_vars

\* N = 2: an initialize failed after its first connection was pushed; entries is
\* partly filled and initialized is false
InitFailureWitness ==
    /\ maxSize = 2
    /\ Len(pool) = 1
    /\ ~initialized
    /\ Quiet
    /\ \E p \in Callers : callers[p].res = "InitError"

\* C16: acquire (also inside withConnection) called while initialized is false
\* starts initialize and marks nothing; while that initialize runs the call
\* marks no entry and gets no connection; it gets a connection only from a scan
\* made after initialize has set initialized; and when the initialize fails the
\* call fails with the initialization error, no entry being marked.
LazyBootstrap ==
    [][\A p \in Callers :
          /\ (~initialized /\ (Acquire(p) \/ WithConnection(p)))
                => /\ callers'[p].pc = "connect"
                   /\ callers'[p].lazy
                   /\ pool' = pool
          /\ (callers[p].lazy /\ callers[p].pc \in SetupStates
                              /\ callers'[p] # callers[p])
                => /\ InUse(pool') = InUse(pool)
                   /\ callers'[p].owned = callers[p].owned
                   /\ callers'[p].pc \in SetupStates \cup {"scan", "idle"}
                   /\ callers'[p].pc = "scan" => initialized'
                   /\ callers'[p].pc = "idle" => callers'[p].res = "InitError"
          /\ (callers[p].lazy /\ callers'[p].owned # callers[p].owned
                              /\ callers[p].pc # "fn")
                => /\ callers[p].pc \in {"scan", "sleep"}
                   /\ initialized]_vars

\* a withConnection on a pool that was not initialized has initialized it and
\* runs fn with the first connection
LazyBootstrapWitness ==
    /\ initialized
    /\ Len(pool) = maxSize
    /\ \E p \in Callers :
          /\ callers[p].lazy
          /\ callers[p].pc = "fn"
          /\ callers[p].client = pool[1].client
          /\ pool[1].inUse

AcquireErrors == {"PoolExhausted", "InitError"}

\* C17: withConnection(fn) settles as fn settled, with the value fn resolved
\* with or the error fn threw, and when that outcome reaches the caller the
\* connection is released already (the caller does not hold it and its entry,
\* if the pool still has it, is free); when the acquire of withConnection fails,
\* the call fails with the error of the acquire and fn was not invoked.
WithConnectionTransparent ==
    [][\A p \in Callers :
          /\ \A r \in FnOutcomes :
                (callers[p].pc = "fn" /\ FnSettled(p, r))
                => LET c == callers[p].client
                       k == findClient(pool', c)
                   IN  /\ callers'[p].res = r
                       /\ callers'[p].pc = "idle"
                       /\ c \notin callers'[p].owned
                       /\ k # 0 => ~pool'[k].inUse
          /\ ( /\ callers[p].op = "withConnection"
               /\ callers'[p].pc = "idle"
               /\ callers[p].pc # "fn" )
                => /\ callers'[p].res \in AcquireErrors
                   /\ callers'[p].owned = callers[p].owned
          /\ (callers[p].pc # "fn" /\ callers'[p].pc = "fn")
                => /\ callers'[p].client \in callers'[p].owned
                   /\ callers'[p].res = "none"]_vars

\* the fn of one withConnection threw and the error reached its caller with the
\* connection free again, while another call failed on an exhausted pool
TransparencyWitness ==
    /\ InUse(pool) = {}
    /\ Len(pool) = maxSize
    /\ \E p, q \in Callers :
          /\ callers[p].res = "FnError"
          /\ callers[p].owned = {}
          /\ callers[q].res = "PoolExhausted"

\* C18: the step in which an acquire fails with the pool-exhausted error changes
\* nothing in the pool: entries with every inUse and lastUsed, and initialized,
\* are as before, the caller obtained no connection, and the error carries the
\* configured timeout.
ExhaustionFrame ==
    [][\A p \in Callers :
          (callers[p].res # "PoolExhausted" /\ callers'[p].res = "PoolExhausted")
          => /\ pool' = pool
             /\ initialized' = initialized
             /\ callers'[p].owned = callers[p].owned
             /\ callers'[p].errTimeout = timeout]_vars

\* N = 2: an acquire failed on a pool whose two connections are checked out
\* since time 0, the error carrying the timeout that has passed
ExhaustionWitness ==
    /\ initialized
    /\ Len(pool) = 2
    /\ \A k \in 1..2 : pool[k].inUse /\ pool[k].lastUsed = 0
    /\ \E p \in Callers :
          /\ callers[p].res = "PoolExhausted"
          /\ callers[p].errTimeout = timeout
          /\ now >= timeout

\* C19: an acquire that waits on an initialized pool eventually stops waiting:
\* it returns a connection (to its caller, or to withConnection, which runs fn)
\* or it fails with the pool-exhausted error, also when no holder ever releases,
\* provided time advances and each poll timer fires.
BoundedWait ==
    \A p \in 1..(MaxCalls + 1) :
        (callers[p].pc = "sleep")
        ~> \/ callers[p].pc = "fn"
           \/ callers[p].pc = "idle" /\ callers[p].res \in {"ok", "PoolExhausted"}

\* an acquire has waited and failed while every connection was held and no
\* caller had released anything
BoundedWaitWitness ==
    /\ InUse(pool) = 1..maxSize
    /\ \A q \in Callers : callers[q].released = 0 /\ callers[q].res # "FnError"
    /\ \E p \in Callers :
          /\ callers[p].res = "PoolExhausted"
          /\ now >= timeout

\* C20: a connection on which closeAll has invoked close (its close has resolved,
\* or is awaited) is never afterwards returned by an acquire, also when the
\* acquire runs while closeAll is in progress and when closeAll has aborted on
\* the failing close of a later entry.
ClosedTerminal ==
    [][\A p \in Callers : \A c \in callers'[p].owned \ callers[p].owned :
          /\ sessions[c] # "closed"
          /\ \A q \in Callers : ~(callers[q].pc = "close" /\ callers[q].client = c)]_vars

\* the connections that callers have received from acquire and not yet released
Held == UNION {callers[p].owned : p \in Callers}

\* C21: for every entry of entries, inUse is true exactly when some caller has
\* received the connection of the entry from acquire and has not yet released
\* it; an entry that initialize has just created, which no caller has received,
\* therefore has inUse = false.
InUseTracksCheckout ==
    \A k \in 1..Len(pool) : pool[k].inUse <=> pool[k].client \in Held

\* of two entries one is checked out, the other was checked out and released
InUseTracksWitness ==
    /\ Len(pool) = 2
    /\ pool[1].inUse
    /\ ~pool[2].inUse
    /\ \E p, q \in Callers :
          /\ callers[p].owned = {pool[1].client}
          /\ callers[q].released = pool[2].client

\* C22: the inUse flag of an entry that stays in entries changes from false to
\* true only in a step in which an acquire hands the connection of that entry to
\* its caller, and from true to false only in a step of release called with that
\* connection; no step of initialize, closeAll, a failing acquire or the clock
\* flips it.
EntryTransitions ==
    [][\A k \in 1..Len(pool) :
          (k <= Len(pool') /\ pool'[k].client = pool[k].client)
          => LET c == pool[k].client IN
             /\ (~pool[k].inUse /\ pool'[k].inUse)
                   => \E p \in Callers :
                         /\ c \in callers'[p].owned \ callers[p].owned
                         /\ callers[p].op \in {"none", "acquire", "withConnection"}
             /\ (pool[k].inUse /\ ~pool'[k].inUse)
                   => \E p \in Callers : ReleaseOf(p, c)]_vars

\* N = 2: the first entry was checked out, released and is checked out again by
\* another caller, the second entry is free
EntryTransitionsWitness ==
    /\ Len(pool) = 2
    /\ pool[1].inUse
    /\ ~pool[2].inUse
    /\ \E p, q \in Callers :
          /\ p # q
          /\ callers[p].released = pool[1].client
          /\ callers[p].res = "released"
          /\ pool[1].client \in callers[q].owned

\* C23: when an acquire returns a connection, it is the connection of the
\* lowest-index entry that was free when the step began, and the same step marks
\* that entry and no other: scan and mark are one step, with no step of another
\* caller in between.
FirstFit ==
    [][\A p \in Callers : \A c \in callers'[p].owned \ callers[p].owned :
          \E k \in 1..Len(pool) :
             /\ pool[k].client = c
             /\ ~pool[k].inUse
             /\ \A j \in 1..(k - 1) : pool[j].inUse
             /\ pool' = [pool EXCEPT ![k].inUse = TRUE, ![k].lastUsed = now]
             /\ \A q \in Callers \ {p} : callers'[q] = callers[q]]_vars

\* N = 2, nothing was ever released: the one acquire made so far found both
\* entries free and took the first
FirstFitWitness ==
    /\ Len(pool) = 2
    /\ pool[1].inUse
    /\ ~pool[2].inUse
    /\ \A q \in Callers : callers[q].released = 0 /\ callers[q].res # "FnError"
    /\ \E p \in Callers :
          /\ callers[p].owned = {pool[1].client}
          /\ \A q \in Callers \ {p} : callers[q].owned = {} /\ callers[q].res = "none"

\* C24: acquire keeps no queue of waiters.  A waiting acquire is changed only by
\* its own poll timer: a release does not wake or serve it; and an acquire that
\* is called while an entry is free takes it in that step, whether or not
\* earlier calls are waiting.  So a call can wait its full timeout and fail
\* although connections were released during its wait, each of them taken by a
\* call that started later.
NoFairness ==
    [][\A p \in Callers :
          /\ (callers[p].pc = "sleep" /\ callers'[p] # callers[p]) => TimerFire(p)
          /\ ((Acquire(p) \/ WithConnection(p)) /\ initialized /\ find(pool) # 0)
                => pool[find(pool)].client \in callers'[p].owned]_vars

\* call p has waited its full timeout and its timer is due, so it fails in its
\* next step; the connection that r released during the wait of p is held by
\* call q, which was made after p
StarvationWitness ==
    \E p, q, r \in Callers : \E k \in 1..Len(pool) :
        /\ p < q /\ r # q /\ r # p
        /\ callers[p].pc = "sleep"
        /\ now - callers[p].start >= timeout
        /\ callers[p].wake <= now
        /\ callers[r].released = pool[k].client
        /\ pool[k].client \in callers[q].owned
        /\ pool[k].inUse
        /\ pool[k].lastUsed > callers[p].start
        /\ InUse(pool) = 1..Len(pool)

\* the order in which the state of a session moves
SessionSteps ==
    {<<"new", "connected">>, <<"connected", "signedin">>, <<"signedin", "ready">>,
     <<"ready", "closed">>}

\* C25: a run of initialize sets up one connection at a time, in the order
\* connect, signin, use; an entry is appended only in the step in which the use
\* of its connection succeeds, after connect and signin; and the next connection
\* of the run is created only in the step that appends the entry of the
\* previous one.
HandshakeOrder ==
    [][/\ \A p \in Callers :
             /\ (callers[p].pc = "connect" /\ callers'[p].pc # "connect")
                   => callers'[p].pc \in {"signin", "idle"}
             /\ (callers[p].pc = "signin" /\ callers'[p].pc # "signin")
                   => callers'[p].pc \in {"use", "idle"}
             /\ (callers[p].pc = "use" /\ callers'[p] # callers[p])
                   => callers'[p].pc \in {"connect", "scan", "idle"}
             /\ (callers[p].pc = "use" /\ callers'[p].pc = "connect")
                   => /\ callers'[p].i = callers[p].i + 1
                      /\ callers'[p].client = Len(sessions')
                      /\ Len(sessions') = Len(sessions) + 1
                      /\ pool' = Append(pool, PoolConnection(callers[p].client, now))
                      /\ sessions'[callers[p].client] = "ready"
       /\ \A c \in 1..Len(sessions) :
             sessions'[c] # sessions[c] => <<sessions[c], sessions'[c]>> \in SessionSteps
       /\ Len(pool') > Len(pool)
             => \E p \in Callers :
                   /\ callers[p].pc = "use"
                   /\ sessions[callers[p].client] = "signedin"
                   /\ sessions'[callers[p].client] = "ready"
                   /\ pool' = Append(pool, PoolConnection(callers[p].client, now))]_vars

\* N = 2: the entry of the first connection is appended and the run is at the
\* signin of its second connection
HandshakeWitness ==
    /\ maxSize = 2
    /\ Len(pool) = 1
    /\ ~initialized
    /\ \E p \in Callers :
          /\ callers[p].pc = "signin"
          /\ callers[p].i = 1
          /\ callers[p].client = 2
          /\ sessions = <<"ready", "connected">>
          /\ pool[1].client = 1

\* the sessions on which connect has succeeded and close has not been called
OpenSessions ==
    {c \in 1..Len(sessions) :
        /\ sessions[c] \in {"connected", "signedin", "ready"}
        /\ \A q \in Callers : ~(callers[q].pc = "close" /\ callers[q].client = c)}

\* the sessions that a createConnection in progress is setting up
InSetup == {callers[p].client : p \in {q \in Callers : callers[q].pc \in SetupStates}}

\* C26: every session on which connect has succeeded and close has not been
\* called is the connection of an entry of entries, or is still being set up by
\* a running createConnection: no open session is left outside the pool when a
\* signin or a use fails or when an initialize fails.
NoLeakedSessions ==
    \A c \in OpenSessions : findClient(pool, c) # 0 \/ c \in InSetup

\* C27: when the close of an entry fails during closeAll, closeAll fails with
\* the shutdown error and the pool is neither emptied nor marked uninitialized:
\* no step of a closeAll that does not resolve changes entries or initialized,
\* so entries has the elements it had before the call, with their inUse flags,
\* and initialized is as it was (true for a pool that was initialized).
FailedTeardownState ==
    [][\A p \in Callers :
          /\ (callers[p].pc = "close" /\ callers'[p] # callers[p]
                                      /\ callers'[p].res # "closed")
                => /\ pool' = pool
                   /\ initialized' = initialized
                   /\ callers'[p].pc = "idle" => callers'[p].res = "ShutdownError"
          /\ (CloseAll(p) /\ callers'[p].pc = "close")
                => (pool' = pool /\ initialized' = initialized)]_vars

\* N = 2: closeAll closed the first connection and failed on the second; both
\* entries are still in entries, the second still checked out, initialized true
FailedTeardownWitness ==
    /\ initialized
    /\ Len(pool) = 2
    /\ sessions[pool[1].client] = "closed"
    /\ sessions[pool[2].client] = "ready"
    /\ ~pool[1].inUse
    /\ pool[2].inUse
    /\ Quiet
    /\ \E p \in Callers : callers[p].res = "ShutdownError"

\* C28: on a pool that closeAll has emptied and nobody has initialized again,
\* an acquire that is called starts a new initialize (it creates a connection
\* and marks nothing), reaches its scan only when its run has set up N
\* connections, and the connection it returns is none of the connections of the
\* pool before closeAll; an acquire that was already polling when closeAll
\* emptied the pool never initializes: it creates no connection and only polls
\* on, until it is served or fails.
AcquireAfterTeardown ==
    [][\A p \in Callers :
          /\ (~initialized /\ (Acquire(p) \/ WithConnection(p)))
                => /\ \E q \in Callers : callers[q].res = "closed"
                   /\ callers'[p].pc = "connect"
                   /\ callers'[p].lazy
                   /\ Len(sessions') = Len(sessions) + 1
                   /\ callers'[p].client = Len(sessions')
                   /\ pool' = pool
          /\ (callers[p].pc = "use" /\ callers'[p].pc = "scan")
                => /\ callers[p].i + 1 = maxSize
                   /\ initialized'
          /\ (callers[p].lazy /\ callers[p].pc # "fn")
                => \A c \in callers'[p].owned \ callers[p].owned : c > maxSize
          /\ (callers[p].pc = "sleep" /\ callers'[p] # callers[p])
                => /\ callers'[p].pc \in {"sleep", "idle", "fn"}
                   /\ sessions' = sessions
                   /\ initialized' = initialized]_vars

\* an acquire that polls, its timer due, on a pool that a closeAll has emptied:
\* the pool is not initialized and no connection was created since
PollingAfterTeardownWitness ==
    /\ pool = <<>>
    /\ ~initialized
    /\ Len(sessions) = maxSize
    /\ \E q \in Callers : callers[q].res = "closed"
    /\ \E p \in Callers :
          /\ callers[p].pc = "sleep"
          /\ ~callers[p].lazy
          /\ callers[p].wake <= now

\* C29: an acquire called on an initialized pool that has a free entry returns a
\* connection in the step of the call: it does not suspend on the poll timer, it
\* gets the connection of the first free entry, and no other call takes a step
\* in between (no other call changes in that step).
NoWaitWhenFree ==
    [][\A p \in Callers :
          (initialized /\ find(pool) # 0 /\ timeout > 0
                       /\ (Acquire(p) \/ WithConnection(p)))
          => /\ callers'[p].pc \in {"idle", "fn"}
             /\ callers'[p].pc = "idle" => callers'[p].res = "ok"
             /\ callers'[p].owned = callers[p].owned \cup {pool[find(pool)].client}
             /\ callers'[p].wake = 0
             /\ now' = now
             /\ \A q \in Callers \ {p} : callers'[q] = callers[q]]_vars

\* N = 2, no time has passed since the pool was filled: two calls each hold one
\* of the two connections, neither can have waited
NoWaitWitness ==
    /\ now = 0
    /\ initialized
    /\ Len(pool) = 2
    /\ pool[1].inUse /\ pool[2].inUse
    /\ \E p, q \in Callers :
          /\ p # q
          /\ callers[p].owned = {pool[1].client}
          /\ callers[q].owned = {pool[2].client}
          /\ callers[p].res = "ok"
          /\ callers[q].res = "ok"

\* C30: a step in which an acquire hands out a connection, and a step of release
\* called with a connection that has an entry, set the lastUsed of that entry to
\* the current time and leave the lastUsed of every other entry as it was; the
\* lastUsed of an entry never decreases and is never later than the current
\* time.
LastUsedMaintained ==
    [][/\ \A p \in Callers : \A c \in callers'[p].owned \ callers[p].owned :
             LET k == findClient(pool, c) IN
             /\ k # 0
             /\ pool'[k].lastUsed = now
             /\ \A j \in (1..Len(pool)) \ {k} : pool'[j].lastUsed = pool[j].lastUsed
       /\ \A p \in Callers : \A c \in Handles :
             LET k == findClient(pool, c) IN
             (k # 0 /\ ReleaseOf(p, c))
             => /\ pool'[k].lastUsed = now
                /\ \A j \in (1..Len(pool)) \ {k} : pool'[j].lastUsed = pool[j].lastUsed
       /\ \A k \in 1..Len(pool) :
             /\ pool[k].lastUsed <= now
             /\ (k <= Len(pool') /\ pool'[k].client = pool[k].client)
                   => /\ pool[k].lastUsed <= pool'[k].lastUsed
                      /\ pool'[k].lastUsed <= now']_vars

\* N = 2: the first entry was checked out just now, the second was released
\* some time ago, after the pool was filled
LastUsedWitness ==
    /\ Len(pool) = 2
    /\ pool[1].inUse
    /\ pool[1].lastUsed = now
    /\ ~pool[2].inUse
    /\ 0 < pool[2].lastUsed
    /\ pool[2].lastUsed < now

====
